---- MODULE Spec2Model ----
(***************************************************************************)
(* Batched Firestore migration scripts of the roomista data-integrity      *)
(* toolkit: migrate_case_style, migrate_name_fields_i18n,                  *)
(* migrate_content_fields_i18n, migrate_data_schema and                    *)
(* resync_tenants_to_algolia.  Each script streams the documents of a      *)
(* collection, computes a per-document update dictionary, stages it in a   *)
(* write batch and commits the batch every 499 staged updates and once     *)
(* more after the loop.                                                    *)
(***************************************************************************)
EXTENDS Integers, Sequences, FiniteSets, TLC

(***************************************************************************)
(* Bounds of the model.                                                    *)
(***************************************************************************)
\* documents held by 'listings' and 'users' together in the detailed model
MaxDocs == 2
\* number of times the operator launches the script
MaxRuns == 2
\* size of the largest collection of the batching model
MaxBigDocs == 1000

(***************************************************************************)
(* Firestore values.  Every value is a record of the same shape so that    *)
(* any two values can be compared: t is the Python type of the value as    *)
(* to_dict() returns it, s a string payload, n an integer payload and l a  *)
(* list payload.  A datetime is held as its offset from the epoch in       *)
(* milliseconds, a number is an integer, and DELETE is the                 *)
(* firestore.DELETE_FIELD sentinel.                                        *)
(***************************************************************************)
Str(x) == [t |-> "str", s |-> x, n |-> 0, l |-> <<>>]
Num(k) == [t |-> "int", s |-> "", n |-> k, l |-> <<>>]
Bool(b) == [t |-> "bool", s |-> "", n |-> IF b THEN 1 ELSE 0, l |-> <<>>]
Ts(ms) == [t |-> "datetime", s |-> "", n |-> ms, l |-> <<>>]
List(q) == [t |-> "list", s |-> "", n |-> 0, l |-> q]
DELETE_FIELD == [t |-> "DELETE", s |-> "", n |-> 0, l |-> <<>>]

\* isinstance(v, datetime)
IsDatetime(v) == v.t = "datetime"
\* isinstance(v, (int, float)): bool is a subclass of int in Python
IsIntOrFloat(v) == v.t \in {"int", "bool"}
\* isinstance(v, str), isinstance(v, list)
IsStr(v) == v.t = "str"
IsList(v) == v.t = "list"

(***************************************************************************)
(* Python dictionaries: functions from a finite set of keys.               *)
(***************************************************************************)
EmptyDict == [k \in {} |-> DELETE_FIELD]
\* d[k] = v
Put(d, k, v) == [x \in (DOMAIN d) \cup {k} |-> IF x = k THEN v ELSE d[x]]
\* d.get(k, default) for a dictionary of strings
Get(d, k, default) == IF k \in DOMAIN d THEN d[k] ELSE default

(***************************************************************************)
(* migrate_case_style.py: the field maps, in the order of the literals.    *)
(***************************************************************************)
LISTINGS_FIELD_MAP ==
  << <<"acceptsStudents", "accepts_students">>,
     <<"availableFrom", "available_from">>,
     <<"availableFrom_unix", "available_from_unix">>,
     <<"bathroomCount", "bathroom_count">>,
     <<"coverImageUrl", "cover_image_url">>,
     <<"createdAt", "created_at">>,
     <<"createdAt_unix", "created_at_unix">>,
     <<"descriptionEn", "description_en">>,
     <<"descriptionEs", "description_es">>,
     <<"hasAC", "has_ac">>,
     <<"hasDoorman", "has_doorman">>,
     <<"hasElevator", "has_elevator">>,
     <<"hasLivingRoom", "has_living_room">>,
     <<"hasWifi", "has_wifi">>,
     <<"imageUrls", "image_urls">>,
     <<"isFurnished", "is_furnished">>,
     <<"landlordName", "landlord_name">>,
     <<"landlordUid", "landlord_uid">>,
     <<"minimumStayMonths", "minimum_stay_months">>,
     <<"petsAllowed", "pets_allowed">>,
     <<"propertyStrengthsEn", "property_strengths_en">>,
     <<"propertyStrengthsEs", "property_strengths_es">>,
     <<"rentalType", "rental_type">>,
     <<"roomCount", "room_count">>,
     <<"smokingAllowed", "smoking_allowed">>,
     <<"sourceLanguage", "source_language">>,
     <<"tenantStrengthsSearchedEn", "tenant_strengths_searched_en">>,
     <<"tenantStrengthsSearchedEs", "tenant_strengths_searched_es">>,
     <<"titleEn", "title_en">>,
     <<"titleEs", "title_es">>,
     <<"updatedAt", "updated_at">>,
     <<"updatedAt_unix", "updated_at_unix">> >>

USERS_FIELD_MAP ==
  << <<"bioEn", "bio_en">>,
     <<"bioEs", "bio_es">>,
     <<"createdAt", "created_at">>,
     <<"createdAt_unix", "created_at_unix">>,
     <<"displayName", "display_name">>,
     <<"idVerificationStatus", "id_verification_status">>,
     <<"isVerified", "is_verified">>,
     <<"photoURL", "photo_url">>,
     <<"propertyStrengthsSearchedEn", "property_strengths_searched_en">>,
     <<"propertyStrengthsSearchedEs", "property_strengths_searched_es">>,
     <<"sourceLanguage", "source_language">>,
     <<"tenantStrengthsEn", "tenant_strengths_en">>,
     <<"tenantStrengthsEs", "tenant_strengths_es">>,
     <<"desiredMoveInDate", "desired_move_in_date">>,
     <<"desiredMoveInDate_unix", "desired_move_in_date_unix">>,
     <<"desiredMoveOutDate", "desired_move_out_date">>,
     <<"desiredMoveOutDate_unix", "desired_move_out_date_unix">>,
     <<"genderEn", "gender_en">>,
     <<"genderEs", "gender_es">>,
     <<"hasPets", "has_pets">>,
     <<"minimumStayMonths", "minimum_stay_months">>,
     <<"needsAC", "needs_ac">>,
     <<"needsElevator", "needs_elevator">>,
     <<"needsFurnished", "needs_furnished">>,
     <<"needsLivingRoom", "needs_living_room">>,
     <<"needsWifi", "needs_wifi">>,
     <<"professionEn", "profession_en">>,
     <<"professionEs", "profession_es">>,
     <<"rentalType", "rental_type">>,
     <<"roomistaPhotoURL", "roomista_photo_url">>,
     <<"searchAddress", "search_address">>,
     <<"searchBudget", "search_budget">>,
     <<"searchLocation", "search_location">>,
     <<"searchRadius", "search_radius">>,
     <<"strengthsRoommateEn", "strengths_roommate_en">>,
     <<"strengthsRoommateEs", "strengths_roommate_es">> >>

(***************************************************************************)
(* migrate_name_fields_i18n.py: fields_to_delete and fields_to_rename of   *)
(* migrate_listings and migrate_users.                                     *)
(***************************************************************************)
I18N_LISTINGS_DELETE ==
  << "description_es", "propertyStrengths_es", "tenantStrengthsSearched_es",
     "title_es", "sourceLanguage" >>

I18N_LISTINGS_RENAME ==
  << <<"availableUntil_unix", "available_until_unix">>,
     <<"availableUntilUnix", "available_until_unix">>,
     <<"availableUntil", "available_until">>,
     <<"availableFromUnix", "available_from_unix">>,
     <<"createdAtUnix", "created_at_unix">>,
     <<"createdAt", "created_at">>,
     <<"propertyStrengths", "property_strengths">>,
     <<"tenantStrengthsSearched", "tenant_strengths_searched">>,
     <<"updatedAtUnix", "updated_at_unix">>,
     <<"updatedAt", "updated_at">> >>

I18N_USERS_DELETE ==
  << "bio_es", "flatmateTraitsEs", "gender_es", "profession_es",
     "propertyStrengthsSearched_es", "strengthsRoommate_es",
     "tenantStrengths_es", "sourceLanguage" >>

I18N_USERS_RENAME ==
  << <<"availableUntil_unix", "available_until_unix">>,
     <<"availableUntil", "available_until">>,
     <<"availableFromUnix", "available_from_unix">>,
     <<"createdAtUnix", "created_at_unix">>,
     <<"createdAt", "created_at">>,
     <<"desiredMoveInDateUnix", "desired_move_in_date_unix">>,
     <<"desiredMoveInDate", "desired_move_in_date">>,
     <<"desiredMoveOutDateUnix", "desired_move_out_date_unix">>,
     <<"desiredMoveOutDate", "desired_move_out_date">>,
     <<"flatmateTraits", "flatmate_traits">>,
     <<"isStudent", "is_student">>,
     <<"languagesSpoken", "languages_spoken">>,
     <<"profileStatus", "profile_status">>,
     <<"propertyStrengths", "property_strengths">>,
     <<"propertyStrengthsSearched", "property_strengths_searched">>,
     <<"strengthsRoommate", "strengths_roommate">>,
     <<"tenantStrengths", "tenant_strengths">>,
     <<"updatedAtUnix", "updated_at_unix">>,
     <<"updatedAt", "updated_at">> >>

(***************************************************************************)
(* migrate_content_fields_i18n.py: CONTENT_CONVERSION_MAP.                 *)
(***************************************************************************)
CONTENT_CONVERSION_MAP ==
  ("users" :>
     ( ("flatmate_traits" :>
          ( ("Independencia" :> "independence") @@ ("Respeto" :> "respect")
            @@ ("Confianza" :> "trustworthiness") @@ ("Limpieza" :> "cleanliness")
            @@ ("Sociabilidad" :> "sociability") ))
       @@ ("gender" :>
          ( ("Hombre" :> "male") @@ ("Mujer" :> "female") @@ ("Otro" :> "other") ))
       @@ ("profile_status" :>
          ( ("iniciado" :> "started") @@ ("documento_creado" :> "document_created")
            @@ ("completado" :> "completed") @@ ("fallido" :> "failed") ))
       @@ ("property_strengths_searched" :>
          ( ("Encanto/Estilo" :> "charm_style") @@ ("Insonorización" :> "sound_proofing")
            @@ ("Luminosidad" :> "brightness") @@ ("Vistas" :> "views")
            @@ ("Ambiente comunitario" :> "community_atmosphere")
            @@ ("Tamaño" :> "size") ))
       @@ ("rental_type" :>
          ( ("propiedadEntera" :> "entire_property") @@ ("habitacion" :> "room") ))
       @@ ("role" :>
          ( ("inquilino" :> "tenant") @@ ("casero" :> "landlord") ))
       @@ ("strengths_roommate" :>
          ( ("Flexibilidad y adaptación" :> "flexibility_and_adaptation")
            @@ ("Comunicación abierta" :> "open_communication")
            @@ ("Aporto buen ambiente" :> "i_bring_a_good_atmosphere")
            @@ ("Respetuoso con el espacio" :> "respectful_of_space")
            @@ ("Responsabilidad doméstica" :> "domestic_responsibility")
            @@ ("Organización y limpieza" :> "organization_and_cleanliness") ))
       @@ ("tenant_strengths" :>
          ( ("Contractual Responsibility" :> "contractual_responsibility")
            @@ ("Respect for the Community" :> "community_respect")
            @@ ("Property care" :> "property_care")
            @@ ("Clear Communication" :> "clear_communication") ))
       @@ ("id_verification_status" :>
          ( ("Verified" :> "verified") @@ ("Pending" :> "pending")
            @@ ("Not_started" :> "not_started") @@ ("Failed" :> "failed") )) ))
  @@
  ("listings" :>
     ( ("property_strengths" :>
          ( ("Charm/Style" :> "charm_style") @@ ("Soundproofing" :> "sound_proofing")
            @@ ("Brightness" :> "brightness") @@ ("Views" :> "views")
            @@ ("Community Atmosphere" :> "community_atmosphere")
            @@ ("Size" :> "size") ))
       @@ ("rental_type" :>
          ( ("entireProperty" :> "entire_property") @@ ("room" :> "room") ))
       @@ ("tenant_strengths_searched" :>
          ( ("Contractual Responsibility" :> "contractual_responsibility")
            @@ ("respect_for_the_community" :> "community_respect")
            @@ ("Property care" :> "property_care")
            @@ ("Clear Communication" :> "clear_communication") )) ))

\* the batch-size test of every loop: counter % 499 == 0
BATCH_LIMIT == 499


(***************************************************************************)
(* migrate_case_style.migrate_collection: the update dictionary of one     *)
(* document.                                                               *)
(***************************************************************************)
\* RenameEntry that leaves the old field in place
RenameEntryKeepsOld(update_data, data, old_name, new_name) ==
  IF old_name \in DOMAIN data
    THEN Put(update_data, new_name, data[old_name])
    ELSE update_data

\* RenameEntry that deletes the old field without copying its value
RenameEntryDropsValue(update_data, data, old_name, new_name) ==
  IF old_name \in DOMAIN data
    THEN Put(update_data, old_name, DELETE_FIELD)
    ELSE update_data

\* the body of "for old_name, new_name in field_map.items()"
RenameEntry(update_data, data, old_name, new_name) ==
  IF old_name \in DOMAIN data
    THEN Put(Put(update_data, new_name, data[old_name]), old_name, DELETE_FIELD)
    ELSE update_data

RECURSIVE RenameFrom(_, _, _, _)
RenameFrom(update_data, data, field_map, i) ==
  IF i > Len(field_map) THEN update_data
  ELSE RenameFrom(RenameEntry(update_data, data, field_map[i][1], field_map[i][2]),
                  data, field_map, i + 1)

case_style_update_data(data, field_map) == RenameFrom(EmptyDict, data, field_map, 1)

(***************************************************************************)
(* migrate_name_fields_i18n.migrate_listings / migrate_users: the update   *)
(* dictionary of one document.                                             *)
(***************************************************************************)
\* 1. add the source language when 'sourceLanguage' is not in the document
i18n_source_language(data) ==
  IF "sourceLanguage" \notin DOMAIN data
    THEN Put(EmptyDict, "source_language", Str("en"))
    ELSE EmptyDict

\* i18n_rename_entry that keeps the value an earlier entry has given new_name
i18n_rename_entry_first_wins(update_data, data, old_name, new_name) ==
  IF old_name \in DOMAIN data
    THEN Put(IF new_name \in DOMAIN update_data
               THEN update_data
               ELSE Put(update_data, new_name, data[old_name]),
             old_name, DELETE_FIELD)
    ELSE update_data

\* 2. the body of "for old_name, new_name in fields_to_rename.items()"
i18n_rename_entry(update_data, data, old_name, new_name) ==
  IF old_name \in DOMAIN data
    THEN Put(Put(update_data, new_name, data[old_name]), old_name, DELETE_FIELD)
    ELSE update_data

RECURSIVE i18n_rename_from(_, _, _, _)
i18n_rename_from(update_data, data, fields_to_rename, i) ==
  IF i > Len(fields_to_rename) THEN update_data
  ELSE i18n_rename_from(
         i18n_rename_entry(update_data, data, fields_to_rename[i][1], fields_to_rename[i][2]),
         data, fields_to_rename, i + 1)

\* 3. the body of "for field in fields_to_delete"
i18n_delete_entry(update_data, data, field) ==
  IF field \in DOMAIN data THEN Put(update_data, field, DELETE_FIELD) ELSE update_data

RECURSIVE i18n_delete_from(_, _, _, _)
i18n_delete_from(update_data, data, fields_to_delete, i) ==
  IF i > Len(fields_to_delete) THEN update_data
  ELSE i18n_delete_from(i18n_delete_entry(update_data, data, fields_to_delete[i]),
                        data, fields_to_delete, i + 1)

i18n_update_data(data, fields_to_rename, fields_to_delete) ==
  i18n_delete_from(
    i18n_rename_from(i18n_source_language(data), data, fields_to_rename, 1),
    data, fields_to_delete, 1)

(***************************************************************************)
(* migrate_content_fields_i18n.migrate_collection_content: the update      *)
(* payload of one document.  None, the result of conversion_map.get() for  *)
(* a missing key, is held as the empty string: both are falsy.             *)
(***************************************************************************)
\* translated_item = conversion_map.get(item, item), for every item of the list
content_new_list(current_list, conversion_map) ==
  [i \in 1..Len(current_list) |-> Get(conversion_map, current_list[i], current_list[i])]

\* content_list_changed that is set by every item of the list
content_list_nonempty(current_list, conversion_map) == current_list # <<>>

\* made_a_change of the list branch: some translated_item != item
content_list_changed(current_list, conversion_map) ==
  \E i \in 1..Len(current_list) :
     content_new_list(current_list, conversion_map)[i] # current_list[i]

\* content_translated_value that passes a missing key through
content_translated_or_same(current_value, conversion_map) ==
  Get(conversion_map, current_value, current_value)

\* translated_value = conversion_map.get(current_value)
content_translated_value(current_value, conversion_map) ==
  Get(conversion_map, current_value, "")

\* whether update_payload[field] is assigned for this field
content_field_staged(current_value, conversion_map) ==
  IF IsList(current_value)
    THEN content_list_changed(current_value.l, conversion_map)
  ELSE IF IsStr(current_value)
    THEN content_translated_value(current_value.s, conversion_map) # ""
  ELSE FALSE

\* the value assigned to update_payload[field]
content_field_value(current_value, conversion_map) ==
  IF IsList(current_value)
    THEN List(content_new_list(current_value.l, conversion_map))
    ELSE Str(content_translated_value(current_value.s, conversion_map))

content_update_payload(doc_data, conversion_rules) ==
  [field \in {f \in (DOMAIN conversion_rules) \cap (DOMAIN doc_data) :
                content_field_staged(doc_data[f], conversion_rules[f])}
     |-> content_field_value(doc_data[field], conversion_rules[field])]

(***************************************************************************)
(* migrate_data_schema.migrate_listings / migrate_users: the update        *)
(* dictionary of one document.                                             *)
(***************************************************************************)
\* int(data[field].timestamp()): int() truncates towards zero
unix_seconds(v) ==
  IF v.n >= 0 THEN Num(v.n \div 1000) ELSE Num(-((-v.n) \div 1000))

\* datetime.fromtimestamp(data[field] / 1000.0, tz=timezone.utc)
from_milliseconds(v) == Ts(v.n)

\* "for field in [...]: if field in data and isinstance(data[field], datetime)"
schema_unix_fields(data, fields) ==
  [k \in {f \o "_unix" : f \in {g \in fields \cap DOMAIN data : IsDatetime(data[g])}}
     |-> unix_seconds(data[CHOOSE f \in fields : f \o "_unix" = k])]

\* "for field in ['createdAt', 'updatedAt']: if field in data and isinstance(..., (int, float))"
schema_timestamp_fields(data) ==
  [f \in {g \in {"createdAt", "updatedAt"} \cap DOMAIN data : IsIntOrFloat(data[g])}
     |-> from_milliseconds(data[f])]

schema_listings_update_data(data) ==
  schema_unix_fields(data, {"availableFrom", "availableUntil"})
    @@ schema_timestamp_fields(data)

\* schema_users_update_data without the test of the role
schema_users_update_data_any_role(data) ==
  schema_unix_fields(data, {"desiredMoveInDate", "desiredMoveOutDate"})
    @@ schema_timestamp_fields(data)

schema_users_update_data(data) ==
  (IF "role" \in DOMAIN data /\ data["role"] = Str("inquilino")
     THEN schema_unix_fields(data, {"desiredMoveInDate", "desiredMoveOutDate"})
     ELSE EmptyDict)
    @@ schema_timestamp_fields(data)

(***************************************************************************)
(* resync_tenants_to_algolia.resync_users: the same payload for every      *)
(* document.                                                               *)
(***************************************************************************)
\* resync_update_payload that sets the role as well
resync_update_payload_and_role(now) ==
  Put(Put(EmptyDict, "updated_at", now), "role", Str("tenant"))

\* resync_update_payload with the epoch in place of the time of the run
resync_update_payload_epoch(now) == Put(EmptyDict, "updated_at", Ts(0))

resync_update_payload(now) == Put(EmptyDict, "updated_at", now)

(***************************************************************************)
(* The document store: what batch.commit() does with the staged updates.   *)
(* An update sets the fields of the dictionary on the document, a field    *)
(* whose value is DELETE_FIELD is removed.                                 *)
(***************************************************************************)
\* ApplyUpdate that replaces the document by the fields of the update
ApplyUpdateReplaces(doc, update_data) ==
  [f \in {g \in DOMAIN update_data : update_data[g] # DELETE_FIELD} |-> update_data[f]]

ApplyUpdate(doc, update_data) ==
  [f \in ((DOMAIN doc) \cup (DOMAIN update_data))
           \ {g \in DOMAIN update_data : update_data[g] = DELETE_FIELD}
     |-> IF f \in DOMAIN update_data THEN update_data[f] ELSE doc[f]]

\* the staged updates of one document, applied in staging order
RECURSIVE ApplyOps(_, _, _)
ApplyOps(doc, ops, i) ==
  IF i > Len(ops) THEN doc
  ELSE ApplyOps(ApplyUpdate(doc, ops[i].data), ops, i + 1)

\* CommitBatch that leaves alone a document that holds a field the update sets
CommitBatchUnlessPresent(docs, ops) ==
  [id \in DOMAIN docs |->
     ApplyOps(docs[id],
              SelectSeq(ops, LAMBDA o :
                 /\ o.id = id
                 /\ \A f \in DOMAIN o.data :
                      o.data[f] # DELETE_FIELD => f \notin DOMAIN docs[id]),
              1)]

\* the documents of a collection after the commit of a batch
CommitBatch(docs, ops) ==
  [id \in DOMAIN docs |-> ApplyOps(docs[id], SelectSeq(ops, LAMBDA o : o.id = id), 1)]

(***************************************************************************)
(* State.                                                                  *)
(*   script          the script the operator launches                     *)
(*   launches        how many times the operator launches it              *)
(*   run             the number of the current launch                     *)
(*   pc              position of the process                              *)
(*   todo            the calls main() has still to make (collections)     *)
(*   coll            collection_name of the running migration function    *)
(*   pos             number of documents the stream has yielded           *)
(*   batch           the pending write batch: staged (id, update) pairs   *)
(*   docs_processed, updates_planned, updates_made, now_utc               *)
(*                   the locals of the running migration function         *)
(*   store           the document store: collection -> documents by id    *)
(*   commits         every batch.commit() issued, in order                *)
(*   output          the summary lines printed                            *)
(*   snap            the store at the first launch and at the end of      *)
(*                   every launch                                         *)
(*   exit_status     <<>> while the process runs, then its exit status    *)
(*   external        the writes of other clients of the store, in order   *)
(***************************************************************************)
VARIABLES script, launches, run, pc, todo, coll, pos, batch,
          docs_processed, updates_planned, updates_made, now_utc,
          store, commits, output, snap, exit_status, external

vars == <<script, launches, run, pc, todo, coll, pos, batch,
          docs_processed, updates_planned, updates_made, now_utc,
          store, commits, output, snap, exit_status, external>>

Scripts == {"case_style", "name_i18n", "content", "data_schema", "resync"}

\* Calls with 'users' migrated first
CallsUsersFirst(s) == IF s = "resync" THEN <<"users">> ELSE <<"users", "listings">>

\* the calls of main(), in order
Calls(s) == IF s = "resync" THEN <<"users">> ELSE <<"listings", "users">>

(***************************************************************************)
(* The collections the scripts are run on.  FieldValues gives, for every   *)
(* field a document may hold, the values it may hold it with.              *)
(***************************************************************************)
FieldValues(s, c) ==
  CASE s = "case_style" /\ c = "listings" ->
         ("hasWifi" :> {Bool(TRUE)}) @@ ("has_wifi" :> {Bool(FALSE)})
         @@ ("city" :> {Str("Madrid")})
    [] s = "case_style" /\ c = "users" ->
         ("displayName" :> {Str("Ana")}) @@ ("display_name" :> {Str("Bea")})
         @@ ("sourceLanguage" :> {Str("es")})
    [] s = "name_i18n" /\ c = "listings" ->
         ("sourceLanguage" :> {Str("es")}) @@ ("title_es" :> {Str("Piso")})
         @@ ("availableUntil_unix" :> {Num(1)}) @@ ("availableUntilUnix" :> {Num(2)})
    [] s = "name_i18n" /\ c = "users" ->
         ("sourceLanguage" :> {Str("es")}) @@ ("source_language" :> {Str("es")})
         @@ ("createdAt" :> {Num(3)})
    [] s = "content" /\ c = "listings" ->
         ("rental_type" :> {Str("room"), Str("entireProperty"), Str("unmapped_value")})
         @@ ("property_strengths" :> {List(<<"Views", "Unknown">>), List(<<"Unknown">>)})
    [] s = "content" /\ c = "users" ->
         ("role" :> {Str("inquilino"), Str("unmapped_value")})
         @@ ("flatmate_traits" :> {List(<<"Independencia", "Unknown">>), Num(4)})
    [] s = "data_schema" /\ c = "listings" ->
         ("availableFrom" :> {Ts(1500), Ts(-1500), Str("2024-01-01")})
         @@ ("createdAt" :> {Num(1700000), Bool(TRUE), Str("2024-01-01")})
    [] s = "data_schema" /\ c = "users" ->
         ("role" :> {Str("inquilino"), Str("tenant")})
         @@ ("desiredMoveInDate" :> {Ts(2500)})
         @@ ("updatedAt" :> {Num(3000)})
    [] s = "resync" /\ c = "listings" ->
         ("city" :> {Str("Madrid")})
    [] s = "resync" /\ c = "users" ->
         ("updated_at" :> {Ts(1000)}) @@ ("role" :> {Str("tenant")})

\* every document over a universe of field values
DocsOver(fv) ==
  UNION { {d \in [S -> UNION {fv[f] : f \in S}] : \A f \in S : d[f] \in fv[f]}
          : S \in SUBSET DOMAIN fv }

\* the stores of at most MaxDocs documents
Stores(s) ==
  UNION { {[listings |-> a, users |-> b] :
             a \in [1..p[1] -> DocsOver(FieldValues(s, "listings"))],
             b \in [1..p[2] -> DocsOver(FieldValues(s, "users"))]}
          : p \in {q \in (0..MaxDocs) \X (0..MaxDocs) : q[1] + q[2] <= MaxDocs} }

\* the values datetime.now() returns
Clock == {5000 + 1000 * r + j : r \in 1..MaxRuns, j \in {0, 500}}

\* the values it returns during a launch: later than during the launches before
ClockAt(r) == {t \in Clock : (t - 5000) \div 1000 = r}

Start(s, l, st) ==
  /\ script = s
  /\ launches = l
  /\ run = 1
  /\ pc = "start"
  /\ todo = <<>>
  /\ coll = "listings"
  /\ pos = 0
  /\ batch = <<>>
  /\ docs_processed = 0
  /\ updates_planned = 0
  /\ updates_made = FALSE
  /\ now_utc = Ts(0)
  /\ store = st
  /\ commits = <<>>
  /\ output = <<>>
  /\ snap = <<st>>
  /\ exit_status = <<>>
  /\ external = <<>>

(***************************************************************************)
(* Collections large enough to fill batches: one collection of n documents *)
(* that either all need the migration or alternate between a document that *)
(* needs it and one that does not.                                         *)
(***************************************************************************)
BigCollection(s) == IF s \in {"name_i18n", "resync"} THEN "users" ELSE "listings"

\* a document the script has work on, and another one
BigDocs(s) ==
  CASE s = "case_style" -> << ("hasWifi" :> Bool(TRUE)), ("has_wifi" :> Bool(FALSE)) >>
    [] s = "name_i18n" -> << ("createdAt" :> Num(3)), ("sourceLanguage" :> Str("es")) >>
    [] s = "content" -> << ("rental_type" :> Str("entireProperty")),
                           ("rental_type" :> Str("unmapped_value")) >>
    [] s = "data_schema" -> << ("availableFrom" :> Ts(1500)),
                               ("availableFrom" :> Str("2024-01-01")) >>
    [] s = "resync" -> << ("role" :> Str("tenant")), ("updated_at" :> Ts(1000)) >>

BigSizes == {BATCH_LIMIT - 1, BATCH_LIMIT, 2 * BATCH_LIMIT, 1000, MaxBigDocs}

BigStore(s, n, alternate) ==
  [c \in {"listings", "users"} |->
     IF c = BigCollection(s)
       THEN [i \in 1..n |-> IF alternate /\ i % 2 = 0 THEN BigDocs(s)[2] ELSE BigDocs(s)[1]]
       ELSE <<>>]

\* the collection of exactly one full batch is migrated at every launch
InitBig ==
  \E s \in Scripts : \E n \in BigSizes : \E alternate \in BOOLEAN :
     Start(s, IF n = BATCH_LIMIT THEN MaxRuns ELSE 1, BigStore(s, n, alternate))

\* the small collections of every shape, and one collection that fills a batch
Init ==
  \/ \E s \in Scripts : \E st \in Stores(s) : Start(s, MaxRuns, st)
  \/ \E s \in Scripts : Start(s, 1, BigStore(s, BATCH_LIMIT, FALSE))

(***************************************************************************)
(* main(): initialise Firebase, call the migration functions in order,     *)
(* print the closing line.                                                 *)
(***************************************************************************)
main_initialise ==
  /\ pc = "start"
  /\ pc' = "main"
  /\ todo' = Calls(script)
  /\ UNCHANGED <<external, exit_status, script, launches, run, coll, pos, batch, docs_processed,
                 updates_planned, updates_made, now_utc, store, commits, output, snap>>

main_completed ==
  /\ pc = "main"
  /\ todo = <<>>
  /\ pc' = "done"
  /\ snap' = Append(snap, store)
  /\ exit_status' = <<0>>
  /\ UNCHANGED <<external, script, launches, run, todo, coll, pos, batch, docs_processed,
                 updates_planned, updates_made, now_utc, store, commits, output>>

\* the operator launches the script again
launch_again ==
  /\ pc \in {"done", "failed"}
  /\ run < launches
  /\ run' = run + 1
  /\ pc' = "start"
  /\ exit_status' = <<>>
  /\ UNCHANGED <<external, script, launches, todo, coll, pos, batch, docs_processed,
                 updates_planned, updates_made, now_utc, store, commits, output, snap>>

(***************************************************************************)
(* The steps every migration function is made of.                          *)
(***************************************************************************)
\* entry: docs = collection.stream(); batch = db.batch(); counters = 0
Enter(s) ==
  /\ pc = "main"
  /\ script = s
  /\ todo # <<>>
  /\ coll' = Head(todo)
  /\ todo' = Tail(todo)
  /\ pos' = 0
  /\ batch' = <<>>
  /\ docs_processed' = 0
  /\ updates_planned' = 0
  /\ updates_made' = FALSE
  /\ pc' = "loop"
  /\ UNCHANGED <<external, exit_status, script, launches, run, store, commits, output, snap>>

\* the document the stream yields next
NextDoc == store[coll][pos + 1]

\* Staged that addresses the document after the one the stream has yielded
StagedOnNext(update) == Append(batch, [id |-> pos + 2, data |-> update])

\* batch.update(doc.reference, update)
Staged(update) == Append(batch, [id |-> pos + 1, data |-> update])

\* AfterStage without the test of the counter
AfterStageNeverFull(counter) == "loop"

\* AfterStage with the test one update late
AfterStageOneLate(counter) == IF counter % (BATCH_LIMIT + 1) = 0 THEN "batch_full" ELSE "loop"

\* a staged counter that is a multiple of the limit sends the loop to the commit
AfterStage(counter) == IF counter % BATCH_LIMIT = 0 THEN "batch_full" ELSE "loop"

\* CommitFull that goes on with the committed batch
CommitFullKeepsBatch(s) ==
  /\ pc = "batch_full"
  /\ script = s
  /\ store' = [store EXCEPT ![coll] = CommitBatch(@, batch)]
  /\ commits' = Append(commits, [run |-> run, coll |-> coll, ops |-> batch])
  /\ batch' = batch
  /\ pc' = "loop"
  /\ UNCHANGED <<external, exit_status, script, launches, run, todo, coll, pos, docs_processed,
                 updates_planned, updates_made, now_utc, output, snap>>

\* "Lote lleno": batch.commit(); batch = db.batch()
CommitFull(s) ==
  /\ pc = "batch_full"
  /\ script = s
  /\ store' = [store EXCEPT ![coll] = CommitBatch(@, batch)]
  /\ commits' = Append(commits, [run |-> run, coll |-> coll, ops |-> batch])
  /\ batch' = <<>>
  /\ pc' = "loop"
  /\ UNCHANGED <<external, exit_status, script, launches, run, todo, coll, pos, docs_processed,
                 updates_planned, updates_made, now_utc, output, snap>>

\* FinalCommit without the test of the counter
FinalCommitAlways(counter) ==
  /\ store' = [store EXCEPT ![coll] = CommitBatch(@, batch)]
  /\ commits' = Append(commits, [run |-> run, coll |-> coll, ops |-> batch])

\* "if counter > 0: batch.commit()" after the loop
FinalCommit(counter) ==
  IF counter > 0
    THEN /\ store' = [store EXCEPT ![coll] = CommitBatch(@, batch)]
         /\ commits' = Append(commits, [run |-> run, coll |-> coll, ops |-> batch])
    ELSE UNCHANGED <<store, commits>>

Line(kind, updated, scanned) ==
  [run |-> run, coll |-> coll, kind |-> kind, updated |-> updated, scanned |-> scanned]


\* Summary that reports the documents scanned as the documents updated
SummaryReportsScanned(counter, scanned) ==
  IF counter > 0 THEN <<Line("completed", scanned, scanned)>>
                 ELSE <<Line("no_updates", 0, scanned)>>

\* the summary printed by the functions that end in "if counter > 0: ... else: ..."
Summary(counter, scanned) ==
  IF counter > 0 THEN <<Line("completed", counter, scanned)>>
                 ELSE <<Line("no_updates", 0, scanned)>>

(***************************************************************************)
(* migrate_case_style.migrate_collection                                   *)
(***************************************************************************)
case_style_field_map == IF coll = "listings" THEN LISTINGS_FIELD_MAP ELSE USERS_FIELD_MAP

case_style_begin == Enter("case_style") /\ UNCHANGED now_utc

case_style_iterate ==
  /\ pc = "loop"
  /\ script = "case_style"
  /\ pos < Len(store[coll])
  /\ LET update_data == case_style_update_data(NextDoc, case_style_field_map) IN
       IF DOMAIN update_data # {}
         THEN /\ updates_made' = TRUE
              /\ batch' = Staged(update_data)
              /\ docs_processed' = docs_processed + 1
              /\ pc' = AfterStage(docs_processed + 1)
         ELSE UNCHANGED <<updates_made, batch, docs_processed, pc>>
  /\ pos' = pos + 1
  /\ UNCHANGED <<external, exit_status, script, launches, run, todo, coll, updates_planned, now_utc,
                 store, commits, output, snap>>

case_style_commit_full == CommitFull("case_style")

case_style_finish ==
  /\ pc = "loop"
  /\ script = "case_style"
  /\ pos = Len(store[coll])
  /\ FinalCommit(docs_processed)
  /\ output' = output
       \o (IF docs_processed > 0 THEN <<Line("completed", docs_processed, pos)>> ELSE <<>>)
       \o (IF ~updates_made THEN <<Line("no_updates", 0, pos)>> ELSE <<>>)
  /\ batch' = <<>>
  /\ pc' = "main"
  /\ UNCHANGED <<external, exit_status, script, launches, run, todo, coll, pos, docs_processed,
                 updates_planned, updates_made, now_utc, snap>>

(***************************************************************************)
(* migrate_name_fields_i18n.migrate_listings / migrate_users               *)
(***************************************************************************)
i18n_fields_to_rename == IF coll = "listings" THEN I18N_LISTINGS_RENAME ELSE I18N_USERS_RENAME
i18n_fields_to_delete == IF coll = "listings" THEN I18N_LISTINGS_DELETE ELSE I18N_USERS_DELETE

i18n_begin == Enter("name_i18n") /\ UNCHANGED now_utc

i18n_iterate ==
  /\ pc = "loop"
  /\ script = "name_i18n"
  /\ pos < Len(store[coll])
  /\ LET update_data == i18n_update_data(NextDoc, i18n_fields_to_rename,
                                         i18n_fields_to_delete) IN
       IF DOMAIN update_data # {}
         THEN /\ batch' = Staged(update_data)
              /\ docs_processed' = docs_processed + 1
              /\ pc' = AfterStage(docs_processed + 1)
         ELSE UNCHANGED <<batch, docs_processed, pc>>
  /\ pos' = pos + 1
  /\ UNCHANGED <<external, exit_status, script, launches, run, todo, coll, updates_planned, updates_made,
                 now_utc, store, commits, output, snap>>

i18n_commit_full == CommitFull("name_i18n")

i18n_finish ==
  /\ pc = "loop"
  /\ script = "name_i18n"
  /\ pos = Len(store[coll])
  /\ FinalCommit(docs_processed)
  /\ output' = output \o Summary(docs_processed, pos)
  /\ batch' = <<>>
  /\ pc' = "main"
  /\ UNCHANGED <<external, exit_status, script, launches, run, todo, coll, pos, docs_processed,
                 updates_planned, updates_made, now_utc, snap>>

(***************************************************************************)
(* migrate_content_fields_i18n.migrate_collection_content                  *)
(***************************************************************************)
content_begin == Enter("content") /\ UNCHANGED now_utc

content_iterate ==
  /\ pc = "loop"
  /\ script = "content"
  /\ pos < Len(store[coll])
  /\ LET update_payload == content_update_payload(NextDoc, CONTENT_CONVERSION_MAP[coll]) IN
       IF DOMAIN update_payload # {}
         THEN /\ batch' = Staged(update_payload)
              /\ updates_planned' = updates_planned + 1
              /\ pc' = AfterStage(updates_planned + 1)
         ELSE UNCHANGED <<batch, updates_planned, pc>>
  /\ docs_processed' = docs_processed + 1
  /\ pos' = pos + 1
  /\ UNCHANGED <<external, exit_status, script, launches, run, todo, coll, updates_made, now_utc,
                 store, commits, output, snap>>

content_commit_full == CommitFull("content")

content_finish ==
  /\ pc = "loop"
  /\ script = "content"
  /\ pos = Len(store[coll])
  /\ FinalCommit(updates_planned)
  /\ output' = output \o Summary(updates_planned, docs_processed)
  /\ batch' = <<>>
  /\ pc' = "main"
  /\ UNCHANGED <<external, exit_status, script, launches, run, todo, coll, pos, docs_processed,
                 updates_planned, updates_made, now_utc, snap>>

(***************************************************************************)
(* migrate_data_schema.migrate_listings / migrate_users                    *)
(***************************************************************************)
schema_update_data(data) ==
  IF coll = "listings" THEN schema_listings_update_data(data)
                       ELSE schema_users_update_data(data)

schema_begin == Enter("data_schema") /\ UNCHANGED now_utc

schema_iterate ==
  /\ pc = "loop"
  /\ script = "data_schema"
  /\ pos < Len(store[coll])
  /\ LET update_data == schema_update_data(NextDoc) IN
       IF DOMAIN update_data # {}
         THEN /\ batch' = Staged(update_data)
              /\ docs_processed' = docs_processed + 1
              /\ pc' = AfterStage(docs_processed + 1)
         ELSE UNCHANGED <<batch, docs_processed, pc>>
  /\ pos' = pos + 1
  /\ UNCHANGED <<external, exit_status, script, launches, run, todo, coll, updates_planned, updates_made,
                 now_utc, store, commits, output, snap>>

schema_commit_full == CommitFull("data_schema")

schema_finish ==
  /\ pc = "loop"
  /\ script = "data_schema"
  /\ pos = Len(store[coll])
  /\ FinalCommit(docs_processed)
  /\ output' = output \o Summary(docs_processed, pos)
  /\ batch' = <<>>
  /\ pc' = "main"
  /\ UNCHANGED <<external, exit_status, script, launches, run, todo, coll, pos, docs_processed,
                 updates_planned, updates_made, now_utc, snap>>

(***************************************************************************)
(* resync_tenants_to_algolia.resync_users                                  *)
(***************************************************************************)
\* entry: now_utc = datetime.now(timezone.utc), read once before the loop
resync_begin ==
  /\ Enter("resync")
  /\ \E t \in ClockAt(run) : t > now_utc.n /\ now_utc' = Ts(t)

resync_iterate ==
  /\ pc = "loop"
  /\ script = "resync"
  /\ pos < Len(store[coll])
  /\ batch' = Staged(resync_update_payload(now_utc))
  /\ docs_processed' = docs_processed + 1
  /\ pc' = AfterStage(docs_processed + 1)
  /\ pos' = pos + 1
  /\ UNCHANGED <<external, exit_status, script, launches, run, todo, coll, updates_planned, updates_made,
                 now_utc, store, commits, output, snap>>

resync_commit_full == CommitFull("resync")

resync_finish ==
  /\ pc = "loop"
  /\ script = "resync"
  /\ pos = Len(store[coll])
  /\ FinalCommit(docs_processed)
  /\ output' = output \o Summary(docs_processed, pos)
  /\ batch' = <<>>
  /\ pc' = "main"
  /\ UNCHANGED <<external, exit_status, script, launches, run, todo, coll, pos, docs_processed,
                 updates_planned, updates_made, now_utc, snap>>

Next ==
  \/ main_initialise
  \/ case_style_begin \/ case_style_iterate \/ case_style_commit_full \/ case_style_finish
  \/ i18n_begin \/ i18n_iterate \/ i18n_commit_full \/ i18n_finish
  \/ content_begin \/ content_iterate \/ content_commit_full \/ content_finish
  \/ schema_begin \/ schema_iterate \/ schema_commit_full \/ schema_finish
  \/ resync_begin \/ resync_iterate \/ resync_commit_full \/ resync_finish
  \/ main_completed
  \/ launch_again

Spec == Init /\ [][Next]_vars

SpecBig == InitBig /\ [][Next]_vars

\* one flow of control: the process takes its next step as long as it has one
SpecLive == Init /\ [][Next]_vars /\ WF_vars(Next)

(***************************************************************************)
(* Errors.  The import of the configuration module is guarded by           *)
(* "except ImportError: ... sys.exit(1)", the initialisation of Firebase   *)
(* by a test of the credentials file and by "except Exception: ...         *)
(* sys.exit(1)".  Nothing catches an exception raised by the stream or by  *)
(* batch.commit(): it leaves the migration function and main(), the        *)
(* interpreter prints the traceback and the process ends with status 1.    *)
(* A commit the store rejects applies none of the updates of its batch.    *)
(***************************************************************************)
\* number of launches that end in an error
MaxFaults == 1

\* the messages of a process that ends in an error
ErrorKinds == {"config_missing", "credentials_missing", "initialise_failed",
               "stream_error", "commit_error"}

\* the launches that have ended in an error so far
Faults == Len(SelectSeq(output, LAMBDA m : m.kind \in ErrorKinds))

\* the counter the final commit of the running function tests
Counter == IF script = "content" THEN updates_planned ELSE docs_processed

\* Fatal that lets main() go on with its next call
FatalIsSwallowed(kind, c) ==
  /\ Faults < MaxFaults
  /\ pc' = "main"
  /\ exit_status' = exit_status
  /\ output' = Append(output, [run |-> run, coll |-> c, kind |-> kind,
                               updated |-> 0, scanned |-> 0])
  /\ snap' = snap

\* Fatal that reports the error and ends with status 0
FatalExitsZero(kind, c) ==
  /\ Faults < MaxFaults
  /\ pc' = "failed"
  /\ exit_status' = <<0>>
  /\ output' = Append(output, [run |-> run, coll |-> c, kind |-> kind,
                               updated |-> 0, scanned |-> 0])
  /\ snap' = Append(snap, store)

\* the error is reported and the process ends with status 1
Fatal(kind, c) ==
  /\ Faults < MaxFaults
  /\ pc' = "failed"
  /\ exit_status' = <<1>>
  /\ output' = Append(output, [run |-> run, coll |-> c, kind |-> kind,
                               updated |-> 0, scanned |-> 0])
  /\ snap' = Append(snap, store)

\* CommitRejected that applies the batch before the error is raised
CommitRejectedButApplied ==
  /\ store' = [store EXCEPT ![coll] = CommitBatch(@, batch)]
  /\ commits' = commits

\* batch.commit() raises: the store has applied nothing of the batch
CommitRejected == UNCHANGED <<store, commits>>

\* "from config import config" raises ImportError
config_missing ==
  /\ pc = "start"
  /\ Fatal("config_missing", "")
  /\ UNCHANGED <<external, script, launches, run, todo, coll, pos, batch, docs_processed,
                 updates_planned, updates_made, now_utc, store, commits>>

\* os.path.exists(config.FIREBASE_SERVICE_ACCOUNT_KEY) is false
credentials_missing ==
  /\ pc = "start"
  /\ Fatal("credentials_missing", "")
  /\ UNCHANGED <<external, script, launches, run, todo, coll, pos, batch, docs_processed,
                 updates_planned, updates_made, now_utc, store, commits>>

\* credentials.Certificate, initialize_app or firestore.client raises
initialise_raises ==
  /\ pc = "start"
  /\ Fatal("initialise_failed", "")
  /\ UNCHANGED <<external, script, launches, run, todo, coll, pos, batch, docs_processed,
                 updates_planned, updates_made, now_utc, store, commits>>

\* "for doc in docs" raises: the store fails to deliver the next document
stream_raises ==
  /\ pc = "loop"
  /\ Fatal("stream_error", coll)
  /\ UNCHANGED <<external, script, launches, run, todo, coll, pos, batch, docs_processed,
                 updates_planned, updates_made, now_utc, store, commits>>

\* batch.commit() of a full batch raises
commit_full_raises ==
  /\ pc = "batch_full"
  /\ CommitRejected
  /\ Fatal("commit_error", coll)
  /\ UNCHANGED <<external, script, launches, run, todo, coll, pos, batch, docs_processed,
                 updates_planned, updates_made, now_utc>>

\* batch.commit() after the loop raises
final_commit_raises ==
  /\ pc = "loop"
  /\ pos = Len(store[coll])
  /\ Counter > 0
  /\ CommitRejected
  /\ Fatal("commit_error", coll)
  /\ UNCHANGED <<external, script, launches, run, todo, coll, pos, batch, docs_processed,
                 updates_planned, updates_made, now_utc>>

\* the scripts in an environment where the store and the configuration fail
NextFail ==
  \/ Next
  \/ config_missing \/ credentials_missing \/ initialise_raises
  \/ stream_raises
  \/ commit_full_raises \/ final_commit_raises

\* the small collections of every shape, and one collection of a full batch
\* and one document more, launched once
InitFail ==
  \/ \E s \in Scripts : \E st \in Stores(s) : Start(s, MaxRuns, st)
  \/ \E s \in Scripts : Start(s, 1, BigStore(s, BATCH_LIMIT + 1, FALSE))

SpecFail == InitFail /\ [][NextFail]_vars

(***************************************************************************)
(* Another client of the store.  The scripts take no lock and stage their  *)
(* updates without a precondition on the version of the document read:     *)
(* while migrate_collection runs, another client may write a field of a    *)
(* document, before the stream yields it or after, with the update of the  *)
(* document pending in the batch.                                          *)
(***************************************************************************)
\* number of writes of the other client
MaxExternalWrites == 1

\* the documents of a collection the other client writes
ExternalDocs(c) == (DOMAIN store[c]) \cap (1..MaxDocs)

\* the value the other client writes
ExternalValue == Str("external")

\* the update of the document is staged in the pending batch
Pending(c, id) ==
  /\ pc \in {"loop", "batch_full"}
  /\ c = coll
  /\ \E j \in 1..Len(batch) : batch[j].id = id

external_write ==
  /\ pc \in {"loop", "batch_full"}
  /\ Len(external) < MaxExternalWrites
  /\ \E c \in {"listings", "users"} : \E id \in ExternalDocs(c) :
       \E f \in DOMAIN FieldValues(script, c) :
         /\ store' = [store EXCEPT ![c][id] = Put(@, f, ExternalValue)]
         /\ external' = Append(external, [run |-> run, coll |-> c, id |-> id, field |-> f,
                                          value |-> ExternalValue,
                                          pending |-> Pending(c, id)])
  /\ UNCHANGED <<script, launches, run, pc, todo, coll, pos, batch, docs_processed,
                 updates_planned, updates_made, now_utc, commits, output, snap,
                 exit_status>>

\* migrate_case_style next to the other client
NextConcurrent ==
  \/ main_initialise
  \/ case_style_begin \/ case_style_iterate \/ case_style_commit_full \/ case_style_finish
  \/ main_completed
  \/ launch_again
  \/ external_write

InitConcurrent ==
  \/ \E st \in Stores("case_style") : Start("case_style", MaxRuns, st)
  \/ Start("case_style", 1, BigStore("case_style", BATCH_LIMIT, FALSE))

SpecConcurrent == InitConcurrent /\ [][NextConcurrent]_vars


(***************************************************************************)
(* Vocabulary of the properties.                                           *)
(***************************************************************************)
Collections == {"listings", "users"}

\* the launches that have run to the end
Completed == 1..(Len(snap) - 1)

\* the store a launch started from, and the store it ended with
Before(r) == snap[r]
After(r) == snap[r + 1]

\* the commits a launch issued on a collection, in order
CommitsOf(r, c) == SelectSeq(commits, LAMBDA b : b.run = r /\ b.coll = c)

\* the commits launches after the first have issued
RerunCommits == SelectSeq(commits, LAMBDA b : b.run > 1)

\* the summary lines a launch printed for a collection
LinesOf(r, c) == SelectSeq(output, LAMBDA m : m.run = r /\ m.coll = c)

\* the field map migrate_case_style uses for a collection
FieldMapOf(c) == IF c = "listings" THEN LISTINGS_FIELD_MAP ELSE USERS_FIELD_MAP

(***************************************************************************)
(* C1: value idempotence of every migration function.  Once a migration    *)
(* script has run to the end, running it again leaves every document as    *)
(* the first run left it, also for documents that held 'sourceLanguage'.   *)
(***************************************************************************)
C1_ValueIdempotence ==
  (script # "resync" /\ pc = "done" /\ run >= 2) => store = Before(run)

(***************************************************************************)
(* C2: a rerun of the rename writes nothing.  After                        *)
(* migrate_case_style has run to the end, a later launch stages no update  *)
(* and issues no commit.                                                    *)
(***************************************************************************)
C2_RenameRerunWritesNothing ==
  script = "case_style" =>
    /\ RerunCommits = <<>>
    /\ run >= 2 => batch = <<>>
    /\ \A r \in Completed \ {1} : \A c \in Collections :
         LinesOf(r, c) = <<[run |-> r, coll |-> c, kind |-> "no_updates", updated |-> 0,
                            scanned |-> Len(store[c])]>>

\* a second launch has ended on a store the first launch had work on
C2_Witness ==
  /\ script = "case_style"
  /\ pc = "done"
  /\ run = 2
  /\ CommitsOf(1, "listings") # <<>>
  /\ CommitsOf(1, "users") # <<>>

(***************************************************************************)
(* C3: a rerun of the backfill writes nothing.  After migrate_data_schema  *)
(* has run to the end, a later launch stages no update and issues no       *)
(* commit, also for documents whose date field already has its '_unix'     *)
(* field.                                                                  *)
(***************************************************************************)
C3_BackfillRerunWritesNothing ==
  script = "data_schema" =>
    /\ RerunCommits = <<>>
    /\ run >= 2 => batch = <<>>

(***************************************************************************)
(* C4: a rerun of the translation writes nothing.  After                   *)
(* migrate_collection_content has run to the end, a later launch stages no *)
(* update, for every value the conversion maps produce ('room' included).  *)
(***************************************************************************)
C4_TranslateRerunWritesNothing ==
  script = "content" =>
    /\ RerunCommits = <<>>
    /\ run >= 2 => batch = <<>>

(***************************************************************************)
(* C5: rename correctness.  For every pair (old_key, new_key) of the field *)
(* map and every document that held old_key = v and no new_key, after the  *)
(* run the document holds new_key = v and no old_key.                      *)
(***************************************************************************)
C5_RenameCorrect ==
  script = "case_style" =>
    \A r \in Completed : \A c \in Collections : \A id \in DOMAIN Before(r)[c] :
      \A k \in 1..Len(FieldMapOf(c)) :
        LET old_key == FieldMapOf(c)[k][1]
            new_key == FieldMapOf(c)[k][2]
            d0 == Before(r)[c][id]
            d1 == After(r)[c][id]
        IN (old_key \in DOMAIN d0 /\ new_key \notin DOMAIN d0) =>
             /\ new_key \in DOMAIN d1
             /\ d1[new_key] = d0[old_key]
             /\ old_key \notin DOMAIN d1

\* a run has ended on a document that held 'hasWifi' and no 'has_wifi'
C5_Witness ==
  /\ script = "case_style"
  /\ pc = "done"
  /\ \E id \in DOMAIN Before(1)["listings"] :
       /\ "hasWifi" \in DOMAIN Before(1)["listings"][id]
       /\ "has_wifi" \notin DOMAIN Before(1)["listings"][id]
       /\ "has_wifi" \in DOMAIN store["listings"][id]


(***************************************************************************)
(* Rule preconditions, as the rules state them on a document.              *)
(***************************************************************************)
\* a rename rule applies: some old key is present
RenameApplies(d, field_map) == \E k \in 1..Len(field_map) : field_map[k][1] \in DOMAIN d

\* a delete rule applies: some field to delete is present
DeleteApplies(d, fields) == \E k \in 1..Len(fields) : fields[k] \in DOMAIN d

\* a translate rule applies: a string that is a key of its map, or a list with
\* an element its map sends to another value
TranslateApplies(d, rules) ==
  \E f \in (DOMAIN rules) \cap (DOMAIN d) :
     \/ d[f].t = "str" /\ d[f].s \in DOMAIN rules[f]
     \/ d[f].t = "list" /\ \E i \in 1..Len(d[f].l) :
          d[f].l[i] \in DOMAIN rules[f] /\ rules[f][d[f].l[i]] # d[f].l[i]

\* a derive-seconds rule applies: some source date field holds a timestamp
DeriveApplies(d, fields) == \E f \in fields \cap DOMAIN d : d[f].t = "datetime"

\* a coerce-to-timestamp rule applies: createdAt or updatedAt holds a value of a
\* Python numeric type
CoerceApplies(d) ==
  \E f \in {"createdAt", "updatedAt"} \cap DOMAIN d : d[f].t \in {"int", "bool"}

\* some rule of the script applies to document d of collection c
Applicable(s, c, d) ==
  CASE s = "case_style" -> RenameApplies(d, FieldMapOf(c))
    [] s = "name_i18n" ->
         \/ "sourceLanguage" \notin DOMAIN d
         \/ RenameApplies(d, IF c = "listings" THEN I18N_LISTINGS_RENAME
                                               ELSE I18N_USERS_RENAME)
         \/ DeleteApplies(d, IF c = "listings" THEN I18N_LISTINGS_DELETE
                                               ELSE I18N_USERS_DELETE)
    [] s = "content" -> TranslateApplies(d, CONTENT_CONVERSION_MAP[c])
    [] s = "data_schema" ->
         \/ c = "listings" /\ DeriveApplies(d, {"availableFrom", "availableUntil"})
         \/ c = "users" /\ "role" \in DOMAIN d /\ d["role"] = Str("inquilino")
              /\ DeriveApplies(d, {"desiredMoveInDate", "desiredMoveOutDate"})
         \/ CoerceApplies(d)
    [] s = "resync" -> TRUE

\* the collections main() migrates
Migrated == {Calls(script)[k] : k \in 1..Len(Calls(script))}

\* the documents of collection c a rule applied to when launch r started
ApplicableIds(r, c) ==
  {id \in DOMAIN Before(r)[c] : Applicable(script, c, Before(r)[c][id])}

\* the sizes of a sequence of commits
Sizes(cs) == [k \in 1..Len(cs) |-> Len(cs[k].ops)]

\* the sum of a sequence of numbers
RECURSIVE Total(_)
Total(q) == IF q = <<>> THEN 0 ELSE Head(q) + Total(Tail(q))

\* the document ids of a sequence of commits, batch after batch
RECURSIVE Ids(_)
Ids(cs) ==
  IF cs = <<>> THEN <<>>
  ELSE [j \in 1..Len(Head(cs).ops) |-> Head(cs).ops[j].id] \o Ids(Tail(cs))

\* the elements of a sequence
Range(q) == {q[j] : j \in 1..Len(q)}

(***************************************************************************)
(* C6: batch cap.  No committed batch holds more than 499 staged updates,  *)
(* the pending batch never holds more than 499, and a pending batch of 499 *)
(* is committed and replaced by an empty one before the next document is   *)
(* read.                                                                   *)
(***************************************************************************)
C6_BatchCap ==
  /\ Len(batch) <= 499
  /\ \A k \in 1..Len(commits) : Len(commits[k].ops) <= 499
  /\ pc = "loop" => Len(batch) < 499
  /\ pc = "batch_full" => Len(batch) = 499

\* a resync loop holds a full pending batch after an earlier full commit
C6_Witness ==
  /\ script = "resync"
  /\ pc = "batch_full"
  /\ Len(batch) = 499
  /\ commits # <<>>

(***************************************************************************)
(* C7: batch boundary.  Migrating a collection of 1000 documents that all  *)
(* need an update issues exactly 3 commits, of 499, 499 and 2 updates, and *)
(* reports 1000 updated documents.                                         *)
(***************************************************************************)
C7_BatchBoundary ==
  /\ pc = "done" =>
       \A c \in Migrated :
         (Len(Before(run)[c]) = 1000 /\ ApplicableIds(run, c) = 1..1000)
         => /\ Sizes(CommitsOf(run, c)) = <<499, 499, 2>>
            /\ Len(LinesOf(run, c)) = 1
            /\ LinesOf(run, c)[1].kind = "completed"
            /\ LinesOf(run, c)[1].updated = 1000
  \* on the way: while every document read so far was staged, the commits issued
  \* so far are one of 499 updates for every 499 documents read
  /\ (pc \in {"loop", "batch_full"} /\ Len(store[coll]) = 1000
        /\ Total(Sizes(CommitsOf(run, coll))) + Len(batch) = pos)
     => /\ \A k \in 1..Len(CommitsOf(run, coll)) : Len(CommitsOf(run, coll)[k].ops) = 499
        /\ pc = "loop" => Len(CommitsOf(run, coll)) = pos \div 499

\* a migration has ended on 1000 documents that all needed an update
C7_Witness ==
  /\ pc = "done"
  /\ \E c \in Migrated :
       /\ Len(Before(run)[c]) = 1000
       /\ ApplicableIds(run, c) = 1..1000
       /\ Len(CommitsOf(run, c)) = 3
       /\ LinesOf(run, c) # <<>>

(***************************************************************************)
(* C8: the final commit is issued only for a non-empty batch.  No commit   *)
(* is ever issued on an empty batch, so a launch that stages N updates on  *)
(* a collection issues ceil(N/499) commits on it.                          *)
(***************************************************************************)
C8_FinalCommitOnlyWhenNonEmpty ==
  /\ \A k \in 1..Len(commits) : commits[k].ops # <<>>
  /\ pc = "done" =>
       \A c \in Migrated :
         Len(CommitsOf(run, c)) = (Cardinality(ApplicableIds(run, c)) + 498) \div 499

(***************************************************************************)
(* C9: exactly one update.  In a run that has ended, every document whose  *)
(* streamed state holds a rule-applicable field is in exactly one          *)
(* committed batch, once, and every other document is in no batch and is   *)
(* left as it was.                                                         *)
(***************************************************************************)
C9_ExactlyOneUpdate ==
  pc = "done" =>
    \A c \in Collections :
      LET ids == Ids(CommitsOf(run, c)) IN
        /\ Cardinality(Range(ids)) = Len(ids)
        /\ Range(ids) = IF c \in Migrated THEN ApplicableIds(run, c) ELSE {}
        /\ \A id \in (DOMAIN store[c]) \ Range(ids) : store[c][id] = Before(run)[c][id]

\* a translation run has ended after several commits, with documents that were
\* written and documents that were not
C9_Witness ==
  /\ script = "content"
  /\ pc = "done"
  /\ Len(CommitsOf(run, "listings")) >= 2
  /\ ApplicableIds(run, "listings") # {}
  /\ ApplicableIds(run, "listings") # DOMAIN store["listings"]

ErrorOf(r) ==
  LET e == SelectSeq(output, LAMBDA m : m.run = r /\ m.kind \in ErrorKinds) IN
    IF e = <<>> THEN "" ELSE e[1].kind

\* the launch has ended because batch.commit() raised
CommitFailed(r) == ErrorOf(r) = "commit_error"

\* the staged updates of a sequence of commits, batch after batch
RECURSIVE Ops(_)
Ops(cs) == IF cs = <<>> THEN <<>> ELSE Head(cs).ops \o Ops(Tail(cs))

\* the ids of the documents a launch has committed an update of
CommittedIds(r, c) == Range(Ids(CommitsOf(r, c)))

(***************************************************************************)
(* C11: no rollback on a commit failure.  When the k-th batch commit of a  *)
(* run fails, the store holds exactly the updates of the batches 1..k-1:   *)
(* the documents staged in batch k and the documents the stream had not    *)
(* yet yielded are as the run found them; and the run issues no commit     *)
(* after the failure.                                                      *)
(***************************************************************************)
C11_NoRollbackNoRetry ==
  /\ [] ( (pc = "failed" /\ CommitFailed(run)) =>
            /\ \A c \in Collections :
                 store[c] = CommitBatch(Before(run)[c], Ops(CommitsOf(run, c)))
            /\ \A j \in 1..Len(batch) :
                 store[coll][batch[j].id] = Before(run)[coll][batch[j].id]
            /\ \A id \in (pos + 1)..Len(store[coll]) :
                 store[coll][id] = Before(run)[coll][id] )
  /\ [][ pc = "failed" => (commits' = commits /\ store' = store) ]_vars

\* the second commit of a run on a collection has failed with updates staged
C11_Witness ==
  /\ pc = "failed"
  /\ CommitFailed(run)
  /\ Len(CommitsOf(run, coll)) >= 1
  /\ batch # <<>>
  /\ store[coll] # Before(run)[coll]

(***************************************************************************)
(* C12: a rerun after a partial failure touches only the remainder.  When  *)
(* a run of a migration script has ended in a failed commit, the next run  *)
(* stages no update for a document the failed run had committed an update  *)
(* of.                                                                     *)
(***************************************************************************)
C12_RerunTouchesOnlyRemainder ==
  (script # "resync" /\ run >= 2 /\ CommitFailed(run - 1)) =>
    /\ \A c \in Collections :
         CommittedIds(run, c) \cap CommittedIds(run - 1, c) = {}
    /\ \A j \in 1..Len(batch) :
         pc \in {"loop", "batch_full"} => batch[j].id \notin CommittedIds(run - 1, coll)

(***************************************************************************)
(* C13: the run state machine.  The position of the process moves only     *)
(* along INIT -> STREAMING -> (BATCH_FULL -> COMMITTING -> STREAMING)* ->  *)
(* FINAL_COMMIT -> DONE, one collection after the other; every error       *)
(* leads to FAILED; and a failed process reads no further document and     *)
(* stages and commits no further batch: the only step after it is a new    *)
(* launch by the operator.                                                 *)
(***************************************************************************)
C13_RunStateMachine ==
  [][ /\ pc = "start" => pc' \in {"main", "failed"}
      /\ pc = "main" => pc' \in {"loop", "done"}
      /\ pc = "loop" => pc' \in {"loop", "batch_full", "main", "failed"}
      /\ pc = "batch_full" => pc' \in {"loop", "failed"}
      /\ (pc = "batch_full" /\ pc' = "loop") => Len(commits') = Len(commits) + 1
      /\ (pc = "loop" /\ pc' = "batch_full") => Len(batch') = BATCH_LIMIT
      /\ pc = "done" => (pc' = "start" /\ run' = run + 1)
      /\ Len(SelectSeq(output', LAMBDA m : m.kind \in ErrorKinds))
           > Len(SelectSeq(output, LAMBDA m : m.kind \in ErrorKinds))
         => pc' = "failed"
      /\ pc = "failed" =>
           /\ pc' = "start"
           /\ run' = run + 1
           /\ UNCHANGED <<pos, batch, todo, store, commits, output>>
    ]_vars

\* a store error has ended the process while main() had a collection still to migrate
C13_Witness ==
  /\ pc = "failed"
  /\ ErrorOf(run) \in {"stream_error", "commit_error"}
  /\ todo # <<>>
  /\ pos > 0

(***************************************************************************)
(* C14: fail-fast initialisation.  When the configuration module is        *)
(* missing, the credentials file does not exist or the initialisation of   *)
(* the store raises, the process reports one fatal error and ends with a   *)
(* non-zero status; it has streamed no document, staged and committed      *)
(* nothing and printed no summary, and the store is as it found it.        *)
(***************************************************************************)
C14_FailFastInitialisation ==
  /\ [] ( (pc = "failed" /\ ErrorOf(run) \in {"config_missing", "credentials_missing",
                                               "initialise_failed"}) =>
            /\ exit_status # <<>>
            /\ exit_status[1] # 0
            /\ store = Before(run)
            /\ \A c \in Collections : CommitsOf(run, c) = <<>>
            /\ Len(SelectSeq(output, LAMBDA m : m.run = run)) = 1 )
  /\ [][ (pc = "start" /\ pc' = "failed") =>
            UNCHANGED <<pos, batch, todo, store, commits, docs_processed, updates_planned>>
       ]_vars

\* the initialisation has failed on a store that holds documents the script has work on
C14_Witness ==
  /\ pc = "failed"
  /\ ErrorOf(run) \in {"config_missing", "credentials_missing", "initialise_failed"}
  /\ \E c \in Migrated : ApplicableIds(run, c) # {}

(***************************************************************************)
(* Vocabulary of the properties about single documents.                    *)
(***************************************************************************)
\* the updates a launch has committed for one document, in order
StagedFor(r, c, id) == SelectSeq(Ops(CommitsOf(r, c)), LAMBDA o : o.id = id)

\* a launch has committed an update of the document that sets or deletes the field
FieldStaged(r, c, id, f) ==
  \E j \in 1..Len(StagedFor(r, c, id)) : f \in DOMAIN StagedFor(r, c, id)[j].data

\* the fields of a document the content migration has a conversion rule for
RuledFields(c, d) == (DOMAIN CONTENT_CONVERSION_MAP[c]) \cap (DOMAIN d)

(***************************************************************************)
(* C15: translate scalar.  A string held by a field with a conversion rule *)
(* is replaced by value_map[value] when it is a key of the map, and no     *)
(* change is staged for the field when it is not: the value stays.         *)
(***************************************************************************)
C15_TranslateScalar ==
  (script = "content" /\ pc = "done") =>
    \A c \in Collections : \A id \in DOMAIN Before(run)[c] :
      \A f \in RuledFields(c, Before(run)[c][id]) :
        LET v == Before(run)[c][id][f]
            value_map == CONTENT_CONVERSION_MAP[c][f] IN
          v.t = "str" =>
            IF v.s \in DOMAIN value_map
              THEN /\ f \in DOMAIN store[c][id]
                   /\ store[c][id][f] = Str(value_map[v.s])
              ELSE /\ ~FieldStaged(run, c, id, f)
                   /\ f \in DOMAIN store[c][id]
                   /\ store[c][id][f] = v

\* a first run has translated the role 'inquilino' and met an unmapped string
C15_Witness ==
  /\ script = "content"
  /\ pc = "done"
  /\ run = 1
  /\ \E id \in DOMAIN Before(1)["users"] :
       /\ "role" \in DOMAIN Before(1)["users"][id]
       /\ Before(1)["users"][id]["role"] = Str("inquilino")
       /\ store["users"][id]["role"] = Str("tenant")
  /\ \E c \in Collections : \E id \in DOMAIN Before(1)[c] :
       \E f \in RuledFields(c, Before(1)[c][id]) :
         Before(1)[c][id][f] = Str("unmapped_value")

(***************************************************************************)
(* C16: translate sequence.  A list held by a field with a conversion rule *)
(* ends with every element that is a key of the map replaced by its        *)
(* translation and every other element as it was, in the same order and    *)
(* the same number; the replacement of the list is staged if and only if   *)
(* an element has changed.                                                 *)
(***************************************************************************)
C16_TranslateSequence ==
  (script = "content" /\ pc = "done") =>
    \A c \in Collections : \A id \in DOMAIN Before(run)[c] :
      \A f \in RuledFields(c, Before(run)[c][id]) :
        LET v == Before(run)[c][id][f]
            value_map == CONTENT_CONVERSION_MAP[c][f] IN
          v.t = "list" =>
            /\ f \in DOMAIN store[c][id]
            /\ store[c][id][f].t = "list"
            /\ Len(store[c][id][f].l) = Len(v.l)
            /\ \A i \in 1..Len(v.l) :
                 store[c][id][f].l[i] =
                   IF v.l[i] \in DOMAIN value_map THEN value_map[v.l[i]] ELSE v.l[i]
            /\ FieldStaged(run, c, id, f)
                 <=> \E i \in 1..Len(v.l) :
                       v.l[i] \in DOMAIN value_map /\ value_map[v.l[i]] # v.l[i]

\* a first run has translated ['Independencia', 'Unknown'] in part and has met a
\* list with no element to translate
C16_Witness ==
  /\ script = "content"
  /\ pc = "done"
  /\ run = 1
  /\ \E id \in DOMAIN Before(1)["users"] :
       /\ "flatmate_traits" \in DOMAIN Before(1)["users"][id]
       /\ Before(1)["users"][id]["flatmate_traits"] = List(<<"Independencia", "Unknown">>)
       /\ store["users"][id]["flatmate_traits"] = List(<<"independence", "Unknown">>)
       /\ FieldStaged(1, "users", id, "flatmate_traits")
  /\ \E id \in DOMAIN Before(1)["listings"] :
       /\ "property_strengths" \in DOMAIN Before(1)["listings"][id]
       /\ Before(1)["listings"][id]["property_strengths"] = List(<<"Unknown">>)
       /\ ~FieldStaged(1, "listings", id, "property_strengths")

(***************************************************************************)
(* Vocabulary of the properties about the backfill.                        *)
(***************************************************************************)
\* the source date fields migrate_data_schema derives a '_unix' field from
DeriveFields(c, d) ==
  IF c = "listings" THEN {"availableFrom", "availableUntil"}
  ELSE IF "role" \in DOMAIN d /\ d["role"] = Str("inquilino")
    THEN {"desiredMoveInDate", "desiredMoveOutDate"}
  ELSE {}

\* the source date fields of both collections
AllDeriveFields ==
  {"availableFrom", "availableUntil", "desiredMoveInDate", "desiredMoveOutDate"}

\* the fields migrate_data_schema coerces to a timestamp
CoerceFields == {"createdAt", "updatedAt"}

\* floor(ms / 1000): the whole seconds since the epoch not after the instant
FloorSeconds(ms) == ms \div 1000

(***************************************************************************)
(* C17: backfill derive-seconds.  For every timestamp T held by a source   *)
(* date field the backfill applies to, also one with a fractional second   *)
(* or before the epoch, the '<field>_unix' field holds floor(T in epoch    *)
(* seconds) after the run.                                                 *)
(***************************************************************************)
C17_DeriveSecondsIsFloor ==
  (script = "data_schema" /\ pc = "done") =>
    \A c \in Collections : \A id \in DOMAIN Before(run)[c] :
      \A f \in DeriveFields(c, Before(run)[c][id]) \cap DOMAIN Before(run)[c][id] :
        Before(run)[c][id][f].t = "datetime" =>
          /\ (f \o "_unix") \in DOMAIN store[c][id]
          /\ store[c][id][f \o "_unix"] = Num(FloorSeconds(Before(run)[c][id][f].n))

(***************************************************************************)
(* C18: backfill applicability.  A '<field>_unix' field is staged only     *)
(* when the source field is present and holds a timestamp; 'createdAt'     *)
(* and 'updatedAt' are replaced by the timestamp of their value in         *)
(* milliseconds when they hold a number, and nothing is staged for them    *)
(* when they are absent or hold a string, a boolean or a timestamp.        *)
(***************************************************************************)
C18_BackfillApplicability ==
  (script = "data_schema" /\ pc = "done") =>
    \A c \in Collections : \A id \in DOMAIN Before(run)[c] :
      LET d == Before(run)[c][id] IN
        /\ \A f \in AllDeriveFields :
             FieldStaged(run, c, id, f \o "_unix") => (f \in DOMAIN d /\ d[f].t = "datetime")
        /\ \A f \in CoerceFields :
             IF f \in DOMAIN d /\ d[f].t = "int"
               THEN /\ f \in DOMAIN store[c][id]
                    /\ store[c][id][f] = Ts(d[f].n)
               ELSE /\ ~FieldStaged(run, c, id, f)
                    /\ f \in DOMAIN d => (f \in DOMAIN store[c][id] /\ store[c][id][f] = d[f])

(***************************************************************************)
(* C19: documents are never created or destroyed.  Every staged operation  *)
(* is an update of fields (values to set, DELETE_FIELD to remove) of a     *)
(* document the stream has yielded, and every collection holds the same    *)
(* document ids as before the first run.                                   *)
(***************************************************************************)
C19_DocumentsNeverCreatedOrDestroyed ==
  /\ \A c \in Collections : DOMAIN store[c] = DOMAIN Before(1)[c]
  /\ pc \in {"loop", "batch_full"} =>
       \A j \in 1..Len(batch) :
         /\ batch[j].id \in 1..pos
         /\ batch[j].id \in DOMAIN store[coll]
         /\ DOMAIN batch[j].data # {}
  /\ \A k \in 1..Len(commits) : \A j \in 1..Len(commits[k].ops) :
       /\ commits[k].ops[j].id \in DOMAIN Before(1)[commits[k].coll]
       /\ DOMAIN commits[k].ops[j].data # {}

\* a run has changed documents of a store that holds documents in both collections
C19_Witness ==
  /\ pc = "done"
  /\ commits # <<>>
  /\ store # Before(1)
  /\ \A c \in Collections : store[c] # <<>>

(***************************************************************************)
(* C20: last-applied-wins on colliding rename targets.  A listing that     *)
(* holds both 'availableUntil_unix' and 'availableUntilUnix' ends the      *)
(* name-field migration with 'available_until_unix' holding the value of   *)
(* 'availableUntilUnix', the rule enumerated last, and without the two     *)
(* old keys.                                                               *)
(***************************************************************************)
C20_LastAppliedWins ==
  (script = "name_i18n" /\ pc = "done") =>
    \A id \in DOMAIN Before(run)["listings"] :
      LET d == Before(run)["listings"][id] IN
        ({"availableUntil_unix", "availableUntilUnix"} \subseteq DOMAIN d) =>
          /\ "available_until_unix" \in DOMAIN store["listings"][id]
          /\ store["listings"][id]["available_until_unix"] = d["availableUntilUnix"]
          /\ "availableUntil_unix" \notin DOMAIN store["listings"][id]
          /\ "availableUntilUnix" \notin DOMAIN store["listings"][id]

\* a first run has migrated a listing that held the two old keys with different values
C20_Witness ==
  /\ script = "name_i18n"
  /\ pc = "done"
  /\ run = 1
  /\ \E id \in DOMAIN Before(1)["listings"] :
       LET d == Before(1)["listings"][id] IN
         /\ {"availableUntil_unix", "availableUntilUnix"} \subseteq DOMAIN d
         /\ d["availableUntil_unix"] # d["availableUntilUnix"]
         /\ "available_until_unix" \in DOMAIN store["listings"][id]

(***************************************************************************)
(* C21: the touch script is idempotent.  Once resync_users has run to the  *)
(* end, running it again leaves every document of 'users' as the first     *)
(* run left it.                                                            *)
(***************************************************************************)
C21_ResyncIdempotent ==
  (script = "resync" /\ pc = "done" /\ run >= 2) =>
    store["users"] = Before(run)["users"]

(***************************************************************************)
(* C21, as the touch script behaves: a second run of resync_users leaves   *)
(* every document of 'users' as the first run left it except for           *)
(* 'updated_at', which holds the time the second run read before           *)
(* streaming.                                                              *)
(***************************************************************************)
C21_ResyncIdempotentButTimestamp ==
  (script = "resync" /\ pc = "done" /\ run >= 2) =>
    /\ DOMAIN store["users"] = DOMAIN Before(run)["users"]
    /\ \A id \in DOMAIN store["users"] :
         /\ DOMAIN store["users"][id] = DOMAIN Before(run)["users"][id]
         /\ \A f \in DOMAIN store["users"][id] \ {"updated_at"} :
              store["users"][id][f] = Before(run)["users"][id][f]
         /\ "updated_at" \in DOMAIN store["users"][id]
         /\ store["users"][id]["updated_at"] = now_utc
         /\ now_utc.n \in Clock

\* resync_users has run twice on a collection that holds documents with other fields
C21_Witness ==
  /\ script = "resync"
  /\ pc = "done"
  /\ run = 2
  /\ \E id \in DOMAIN store["users"] : "role" \in DOMAIN store["users"][id]
  /\ store["users"] # Before(2)["users"]

(***************************************************************************)
(* Vocabulary of the properties about the source language.                 *)
(***************************************************************************)
\* the names a document carries its source language under
SourceLanguageFields == {"sourceLanguage", "source_language"}

\* the source-language values a document carries
SourceLanguages(d) == {d[f] : f \in SourceLanguageFields \cap DOMAIN d}

(***************************************************************************)
(* C22: the source language is added only if missing.  The name-field      *)
(* migration gives 'source_language' = 'en' to a document that carries no  *)
(* source language; a document that carries one, under 'sourceLanguage'    *)
(* or 'source_language', still carries that value after the run and gets   *)
(* no write of 'source_language'.                                          *)
(***************************************************************************)
C22_SourceLanguageOnlyIfMissing ==
  (script = "name_i18n" /\ pc = "done") =>
    \A c \in Collections : \A id \in DOMAIN Before(run)[c] :
      LET d == Before(run)[c][id] IN
        IF SourceLanguages(d) = {}
          THEN /\ "source_language" \in DOMAIN store[c][id]
               /\ store[c][id]["source_language"] = Str("en")
          ELSE /\ SourceLanguages(d) \subseteq SourceLanguages(store[c][id])
               /\ ~FieldStaged(run, c, id, "source_language")

(***************************************************************************)
(* C23: conditional backfill for users.  migrate_users stages              *)
(* 'desiredMoveInDate_unix' and 'desiredMoveOutDate_unix' only for a       *)
(* document whose 'role' is 'inquilino' when it is read: it stages them    *)
(* for such a document whose date field holds a timestamp, and for no      *)
(* document with another role or without a role; a number in 'createdAt'   *)
(* or 'updatedAt' is coerced whatever the role.                            *)
(***************************************************************************)
C23_ConditionalBackfillForUsers ==
  (script = "data_schema" /\ pc = "done") =>
    \A id \in DOMAIN Before(run)["users"] :
      LET d == Before(run)["users"][id]
          inquilino == "role" \in DOMAIN d /\ d["role"] = Str("inquilino") IN
        /\ \A f \in {"desiredMoveInDate", "desiredMoveOutDate"} :
             FieldStaged(run, "users", id, f \o "_unix")
               <=> (inquilino /\ f \in DOMAIN d /\ d[f].t = "datetime")
        /\ \A f \in CoerceFields \cap DOMAIN d :
             d[f].t = "int" =>
               /\ FieldStaged(run, "users", id, f)
               /\ store["users"][id][f] = Ts(d[f].n)

\* a first run has met a tenant-to-be with a move-in date, and a user with another
\* role or none who holds a move-in date and a numeric 'updatedAt'
C23_Witness ==
  /\ script = "data_schema"
  /\ pc = "done"
  /\ run = 1
  /\ \E id \in DOMAIN Before(1)["users"] :
       LET d == Before(1)["users"][id] IN
         /\ "role" \in DOMAIN d /\ d["role"] = Str("inquilino")
         /\ "desiredMoveInDate" \in DOMAIN d
         /\ "desiredMoveInDate_unix" \in DOMAIN store["users"][id]
  /\ \E id \in DOMAIN Before(1)["users"] :
       LET d == Before(1)["users"][id] IN
         /\ ~("role" \in DOMAIN d /\ d["role"] = Str("inquilino"))
         /\ {"desiredMoveInDate", "updatedAt"} \subseteq DOMAIN d
         /\ "desiredMoveInDate_unix" \notin DOMAIN store["users"][id]
         /\ store["users"][id]["updatedAt"].t = "datetime"

RenameFrame(c, d) ==
  UNION { {FieldMapOf(c)[k][1], FieldMapOf(c)[k][2]} :
            k \in {j \in 1..Len(FieldMapOf(c)) : FieldMapOf(c)[j][1] \in DOMAIN d} }

C25_RenameFrame ==
  (script = "case_style" /\ pc = "done") =>
    \A c \in Collections : \A id \in DOMAIN Before(run)[c] :
      LET d == Before(run)[c][id]
          e == store[c][id] IN
        /\ (DOMAIN d) \ RenameFrame(c, d) = (DOMAIN e) \ RenameFrame(c, d)
        /\ \A f \in (DOMAIN d) \ RenameFrame(c, d) : e[f] = d[f]
        /\ RenameFrame(c, d) = {} => (e = d /\ StagedFor(run, c, id) = <<>>)

\* a first run has renamed a field of a document that holds other fields, and has
\* met a document that holds no old key
C25_Witness ==
  /\ script = "case_style"
  /\ pc = "done"
  /\ run = 1
  /\ \E c \in Collections : \E id \in DOMAIN Before(1)[c] :
       /\ RenameFrame(c, Before(1)[c][id]) # {}
       /\ (DOMAIN Before(1)[c][id]) \ RenameFrame(c, Before(1)[c][id]) # {}
       /\ store[c][id] # Before(1)[c][id]
  /\ \E c \in Collections : \E id \in DOMAIN Before(1)[c] :
       /\ Before(1)[c][id] # <<>>
       /\ RenameFrame(c, Before(1)[c][id]) = {}

(***************************************************************************)
(* C26: the resync touches every document uniformly.  resync_users stages  *)
(* exactly one update for every document of 'users' the stream yields,     *)
(* whatever it holds; every update sets 'updated_at' and nothing else; and *)
(* all the updates of a run carry the one time read before streaming.      *)
(***************************************************************************)
C26_ResyncUniform ==
  script = "resync" =>
    /\ pc \in {"loop", "batch_full"} =>
         \A j \in 1..Len(batch) :
           /\ DOMAIN batch[j].data = {"updated_at"}
           /\ batch[j].data["updated_at"] = now_utc
    /\ pc \in {"loop", "batch_full"} =>
         Ids(CommitsOf(run, "users")) \o [j \in 1..Len(batch) |-> batch[j].id]
           = [i \in 1..pos |-> i]
    /\ pc = "done" =>
         /\ Ids(CommitsOf(run, "users")) = [i \in 1..Len(store["users"]) |-> i]
         /\ \A k \in 1..Len(CommitsOf(run, "users")) :
              \A j \in 1..Len(CommitsOf(run, "users")[k].ops) :
                /\ DOMAIN CommitsOf(run, "users")[k].ops[j].data = {"updated_at"}
                /\ CommitsOf(run, "users")[k].ops[j].data["updated_at"] = now_utc
         /\ \A id \in DOMAIN store["users"] : store["users"][id]["updated_at"] = now_utc

\* a run has touched, in more than one batch, documents that hold different fields
C26_Witness ==
  /\ script = "resync"
  /\ pc = "done"
  /\ Len(CommitsOf(run, "users")) >= 2
  /\ \E a, b \in DOMAIN Before(run)["users"] :
       DOMAIN Before(run)["users"][a] # DOMAIN Before(run)["users"][b]

(***************************************************************************)
(* C27: stale-snapshot writes under a concurrent writer.  The update       *)
(* staged for a document gives new_key the value old_key held when the     *)
(* stream yielded the document and deletes old_key; the commit sets and    *)
(* deletes exactly that, whatever the document holds by then: a write of   *)
(* another client to old_key or new_key between the read and the commit    *)
(* is lost.                                                                *)
(***************************************************************************)
C27_StaleSnapshotWrites ==
  [][ /\ (pc = "loop" /\ Len(batch') = Len(batch) + 1) =>
           LET op == batch'[Len(batch')]
               d == store[coll][pos + 1] IN
             /\ op.id = pos + 1
             /\ \A k \in 1..Len(FieldMapOf(coll)) :
                  FieldMapOf(coll)[k][1] \in DOMAIN d =>
                    /\ op.data[FieldMapOf(coll)[k][2]] = d[FieldMapOf(coll)[k][1]]
                    /\ op.data[FieldMapOf(coll)[k][1]] = DELETE_FIELD
      /\ Len(commits') = Len(commits) + 1 =>
           /\ commits'[Len(commits')].ops = batch
           /\ \A j \in 1..Len(batch) : \A f \in DOMAIN batch[j].data :
                IF batch[j].data[f] = DELETE_FIELD
                  THEN f \notin DOMAIN store'[coll][batch[j].id]
                  ELSE /\ f \in DOMAIN store'[coll][batch[j].id]
                       /\ store'[coll][batch[j].id][f] = batch[j].data[f]
    ]_vars

\* another client has written an old key or a new key of a document whose update was
\* pending, and the run has ended with that write lost
C27_Witness ==
  /\ pc = "done"
  /\ run = 1
  /\ \E k \in 1..Len(external) :
       LET w == external[k] IN
         /\ w.pending
         /\ w.field \in RenameFrame(w.coll, Before(1)[w.coll][w.id])
         /\ \/ w.field \notin DOMAIN store[w.coll][w.id]
            \/ store[w.coll][w.id][w.field] # w.value

(***************************************************************************)
(* Vocabulary of the properties about the order of the work.               *)
(***************************************************************************)
\* a sequence of numbers in increasing order
IsIncreasing(q) == \A i \in 1..(Len(q) - 1) : q[i] < q[i + 1]

\* the migration function of a collection is streaming
Streaming(c) == pc \in {"loop", "batch_full"} /\ coll = c

\* 'listings' is finished before 'users' is read, the commits of a collection
\* follow the order of the stream, and a finished run has committed all it staged
Sequenced ==
  /\ (Streaming("users") /\ script # "resync") =>
       /\ LinesOf(run, "listings") # <<>>
       /\ CommittedIds(run, "listings") = ApplicableIds(run, "listings")
  /\ Streaming("listings") =>
       /\ CommitsOf(run, "users") = <<>>
       /\ LinesOf(run, "users") = <<>>
       /\ todo = <<"users">>
  /\ \A c \in Collections : IsIncreasing(Ids(CommitsOf(run, c)))
  /\ pc = "done" =>
       /\ batch = <<>>
       /\ \A c \in Migrated : CommittedIds(run, c) = ApplicableIds(run, c)

(***************************************************************************)
(* C28: the collections are migrated strictly in sequence and every run    *)
(* terminates.  The migration of 'listings' has streamed, staged and       *)
(* issued its final commit before the first document of 'users' is read;   *)
(* commits are issued one at a time, in staging order; and, the store      *)
(* raising no error, every launch reaches the end of main() with every     *)
(* staged update committed.                                                *)
(***************************************************************************)
C28_SequentialAndTerminates ==
  /\ []Sequenced
  /\ [][Len(commits') <= Len(commits) + 1]_vars
  /\ (pc = "start") ~> (pc = "done")

\* a run has ended after committing updates of both collections
C28_Witness ==
  /\ pc = "done"
  /\ CommitsOf(run, "listings") # <<>>
  /\ CommitsOf(run, "users") # <<>>
  /\ Len(output) >= 2

====
